---- MODULE Spec2Model ----
(***************************************************************************)
(* A model of tlsprofiler (src/tlsprofiler/__init__.py): the result        *)
(* aggregate TLSProfilerResult, the construction of a TLSProfiler (lazy    *)
(* load of the process-wide profile catalog, profile lookup, connectivity  *)
(* probe) and TLSProfiler.run with the four checks it calls.               *)
(*                                                                         *)
(* Python values are modelled as follows.  None is the record None.  A     *)
(* list is a sequence, a set is a set, a dict is a function.  A call that  *)
(* can raise yields a record whose field kind is "raised".  A message is   *)
(* the string the f-string builds.  Iterating a Python set visits its      *)
(* members in an order the language does not fix, so an operator that      *)
(* iterates a set yields the set of all lists it may build.                *)
(***************************************************************************)
EXTENDS Integers, Sequences, FiniteSets, TLC

\* ------------------------------------------------------------- bounds

\* Calls of run() on one profiler object.
MaxRuns == 2
\* Certificate dates are drawn from 0..MaxTick, in ticks.
MaxTick == 6
\* Ticks in a day: timedelta.days drops the part of a day.
TicksPerDay == 2
\* Largest maximum_certificate_lifespan (days) of a profile handed to a check.
MaxLifespanDays == 2
\* Largest number of Signed Certificate Timestamps on a leaf certificate.
MaxSCT == 3
\* Protocol versions that accept at least one cipher in one survey.
MaxActiveProtocols == 2
\* Longest error list handed to the TLSProfilerResult constructor directly.
MaxErrors == 2

\* The threads of the process; each constructs one TLSProfiler and calls
\* run() on it.
Threads == {"t1", "t2"}

None == [type |-> "NoneType"]

\* ------------------------------------------------------ sequence helpers

\* The lists that enumerate the members of set S, each once: the orders in
\* which a for loop over a Python set may visit it.
IterationOrders(S) ==
    {s \in [1..Cardinality(S) -> S] : \A x \in S : \E i \in DOMAIN s : s[i] = x}

Range(s) == {s[i] : i \in DOMAIN s}

RECURSIVE Concat(_)
\* The concatenation of a list of lists (list.extend in a loop).
Concat(ss) == IF ss = <<>> THEN <<>> ELSE Head(ss) \o Concat(Tail(ss))

\* ------------------------------------------------------ TLSProfilerResult

TLSProfilerResult_NoVulnerable(validation_errors, profile_errors, vulnerability_errors) ==
    LET validated == Len(validation_errors) = 0
        profile_matched == Len(profile_errors) = 0
        vulnerable == Len(vulnerability_errors) > 0
    IN  [kind |-> "TLSProfilerResult",
         validation_errors |-> validation_errors,
         profile_errors |-> profile_errors,
         vulnerability_errors |-> vulnerability_errors,
         validated |-> validated,
         profile_matched |-> profile_matched,
         vulnerable |-> vulnerable,
         all_ok |-> validated /\ profile_matched]

TLSProfilerResult(validation_errors, profile_errors, vulnerability_errors) ==
    LET validated == Len(validation_errors) = 0
        profile_matched == Len(profile_errors) = 0
        vulnerable == Len(vulnerability_errors) > 0
    IN  [kind |-> "TLSProfilerResult",
         validation_errors |-> validation_errors,
         profile_errors |-> profile_errors,
         vulnerability_errors |-> vulnerability_errors,
         validated |-> validated,
         profile_matched |-> profile_matched,
         vulnerable |-> vulnerable,
         all_ok |-> validated /\ profile_matched /\ ~vulnerable]

\* ------------------------------------------------------ the profile catalog

\* The document requests.get(PROFILES_URL).json() returns: the schema of the
\* Mozilla guidelines, with a few members per list and lifespans in days
\* scaled to the dates of the model.  A JSON null (rsa_key_size,
\* certificate_curves) is 0, respectively the empty list: Python treats
\* null, 0 and [] alike where the code reads these two fields.
Catalog ==
    [version |-> "5.3",
     configurations |->
       ("modern" :>
          [tls_versions |-> <<"TLSv1.3">>,
           ciphersuites |-> <<"TLS_AES_128_GCM_SHA256">>,
           ciphers |-> [openssl |-> <<>>],
           maximum_certificate_lifespan |-> 1,
           certificate_types |-> <<"ecdsa">>,
           rsa_key_size |-> 0,
           certificate_curves |-> <<"prime256v1", "secp384r1">>,
           certificate_signatures |-> <<"ecdsa-with-SHA256">>])
       @@
       ("old" :>
          [tls_versions |-> <<"TLSv1", "TLSv1.1", "TLSv1.2", "TLSv1.3">>,
           ciphersuites |-> <<"TLS_AES_128_GCM_SHA256">>,
           ciphers |-> [openssl |-> <<"ECDHE-RSA-AES128-GCM-SHA256", "AES128-SHA">>],
           maximum_certificate_lifespan |-> 2,
           certificate_types |-> <<"rsa">>,
           rsa_key_size |-> 2048,
           certificate_curves |-> <<>>,
           certificate_signatures |-> <<"sha256WithRSAEncryption">>])]

\* The profile names a caller may ask for; "bogus" is not in the catalog.
ProfileNames == {"modern", "old", "bogus"}

\* ------------------------------------------------------ check_vulnerabilities

RobotScanResultEnum ==
    {"VULNERABLE_WEAK_ORACLE", "VULNERABLE_STRONG_ORACLE",
     "NOT_VULNERABLE_NO_ORACLE", "NOT_VULNERABLE_RSA_NOT_SUPPORTED",
     "UNKNOWN_INCONSISTENT_RESULTS"}

HeartbleedMessage == "Server is vulnerable to Heartbleed attack"
CcsMessage == "Server is vulnerable to OpenSSL CCS Injection (CVE-2014-0224)"
RobotMessage == "Server is vulnerable to ROBOT attack."

check_vulnerabilities_StrongOnly(vuln) ==
    (IF vuln.is_vulnerable_to_heartbleed THEN <<HeartbleedMessage>> ELSE <<>>)
    \o (IF vuln.is_vulnerable_to_ccs_injection THEN <<CcsMessage>> ELSE <<>>)
    \o (IF vuln.robot_result_enum \in {"VULNERABLE_STRONG_ORACLE"}
        THEN <<RobotMessage>> ELSE <<>>)

\* vuln holds what the three scans return.
check_vulnerabilities(vuln) ==
    (IF vuln.is_vulnerable_to_heartbleed THEN <<HeartbleedMessage>> ELSE <<>>)
    \o (IF vuln.is_vulnerable_to_ccs_injection THEN <<CcsMessage>> ELSE <<>>)
    \o (IF vuln.robot_result_enum \in
              {"VULNERABLE_WEAK_ORACLE", "VULNERABLE_STRONG_ORACLE"}
        THEN <<RobotMessage>> ELSE <<>>)

\* ------------------------------------------------------ check_certificate_properties

\* The classes of public key a certificate may carry; the last one is none of
\* the five the code knows.
PublicKeyClasses ==
    {"RSAPublicKey", "EllipticCurvePublicKey", "Ed25519PublicKey",
     "Ed448PublicKey", "DSAPublicKey", "X25519PublicKey"}

\* The isinstance chain.
cert_type_string(pub_key) ==
    IF pub_key.class = "RSAPublicKey" THEN "RSA"
    ELSE IF pub_key.class = "EllipticCurvePublicKey" THEN "ECDSA"
    ELSE IF pub_key.class = "Ed25519PublicKey" THEN "ED25519"
    ELSE IF pub_key.class = "Ed448PublicKey" THEN "ED448"
    ELSE IF pub_key.class = "DSAPublicKey" THEN "DSA"
    ELSE ""

\* str.lower() on the strings cert_type_string returns.
Lower(s) ==
    CASE s = "RSA" -> "rsa"
      [] s = "ECDSA" -> "ecdsa"
      [] s = "ED25519" -> "ed25519"
      [] s = "ED448" -> "ed448"
      [] s = "DSA" -> "dsa"
      [] OTHER -> s

\* timedelta.days of not_valid_after - not_valid_before: whole days, rounded
\* down.
LifespanDays(certificate) ==
    (certificate.not_valid_after - certificate.not_valid_before) \div TicksPerDay

LifespanMessage == "certificate lifespan to long"

LifespanErrors_AtLeast(certificate, target_profile) ==
    IF target_profile.maximum_certificate_lifespan <= LifespanDays(certificate)
    THEN <<LifespanMessage>> ELSE <<>>

\* Lines 144-147: the lifespan check.
LifespanErrors(certificate, target_profile) ==
    IF target_profile.maximum_certificate_lifespan < LifespanDays(certificate)
    THEN <<LifespanMessage>> ELSE <<>>

\* Returns the pair (errors, pub_key_type) as a record.
check_certificate_properties(certificate, ocsp_stapling, target_profile) ==
    LET pub_key == certificate.public_key
        pub_key_type == cert_type_string(pub_key)
        type_errors ==
            IF Lower(pub_key_type) \notin Range(target_profile.certificate_types)
            THEN <<"wrong certificate type (" \o pub_key_type \o ")">> ELSE <<>>
        key_errors ==
            IF /\ pub_key.class = "RSAPublicKey"
               /\ target_profile.rsa_key_size # 0
               /\ pub_key.key_size # target_profile.rsa_key_size
            THEN <<"RSA certificate has wrong key size">>
            ELSE IF /\ pub_key.class = "EllipticCurvePublicKey"
                    /\ target_profile.certificate_curves # <<>>
                    /\ pub_key.curve \notin Range(target_profile.certificate_curves)
            THEN <<"ECDSA certificate uses wrong curve">>
            ELSE <<>>
        signature_errors ==
            IF certificate.signature_algorithm
                  \notin Range(target_profile.certificate_signatures)
            THEN <<"certificate has a wrong signature">> ELSE <<>>
        ocsp_errors ==
            IF ~ocsp_stapling THEN <<"OCSP stapling must be supported">> ELSE <<>>
    IN  [errors |-> LifespanErrors(certificate, target_profile) \o type_errors
                      \o key_errors \o signature_errors \o ocsp_errors,
         pub_key_type |-> pub_key_type]

\* ------------------------------------------------------ check_certificate

NotSuccessfulMessage(r) ==
    "validation not successful: " \o r.verify_string
        \o " (trust store " \o r.trust_store \o ")"

IsFailedValidation(r) == ~r.was_validation_successful

ErrorMessageOf(fail) == fail.error_message

HostnameMessage == "Leaf certificate subject does not match hostname!"
ChainOrderMessage == "Certificate chain has wrong order."
Sha1Message == "SHA1 signature found in chain."
SymantecMessage == "Symantec legacy certificate found in chain."
SctMessage(count) ==
    "Not enought SCTs in certificate, only found " \o ToString(count) \o "."

\* The messages of lines 192-206, in the order the code appends them.
ChainHygieneErrors(info) ==
    (IF ~info.leaf_certificate_subject_matches_hostname
     THEN <<HostnameMessage>> ELSE <<>>)
    \o (IF ~info.received_chain_has_valid_order THEN <<ChainOrderMessage>> ELSE <<>>)
    \o (IF info.verified_chain_has_sha1_signature THEN <<Sha1Message>> ELSE <<>>)
    \o (IF info.verified_chain_has_legacy_symantec_anchor
        THEN <<SymantecMessage>> ELSE <<>>)
    \o (IF info.leaf_certificate_signed_certificate_timestamps_count < 2
        THEN <<SctMessage(info.leaf_certificate_signed_certificate_timestamps_count)>>
        ELSE <<>>)

\* info is the CertificateInfoScanResult.  With a non-empty
\* path_validation_error_list, line 189 rebinds validation_errors to a
\* generator and line 190 looks up .append on it: AttributeError, raised
\* before the combined message is built.
check_certificate(info, target_profile) ==
    LET properties ==
            check_certificate_properties(info.received_certificate_chain[1],
                                         info.ocsp_response_is_trusted,
                                         target_profile)
        failed == SelectSeq(info.path_validation_result_list, IsFailedValidation)
        not_successful == [i \in DOMAIN failed |-> NotSuccessfulMessage(failed[i])]
    IN  IF info.path_validation_error_list # <<>>
        THEN [kind |-> "raised", exception |-> "AttributeError"]
        ELSE [kind |-> "returned",
              validation_errors |-> not_successful \o ChainHygieneErrors(info),
              profile_errors |-> properties.errors,
              pub_key_type |-> properties.pub_key_type]

\* ------------------------------------------------------ scan_supported_ciphers_and_protocols

\* The keys of SCAN_COMMANDS, in the order the dict lists them.
SCAN_COMMANDS ==
    <<"SSLv2", "SSLv3", "TLSv1", "TLSv1.1", "TLSv1.2", "TLSv1.3">>

OpensslName(cipher) == cipher.openssl_name

HasDhInfo(cipher) == cipher.dh_info # None

KeyExchangeOf(cipher) == <<cipher.dh_info, cipher.openssl_name>>

\* accepted maps each protocol name to the accepted_cipher_list its scan
\* returns.  Yields the three fields the method sets on the profiler.
scan_supported_ciphers_and_protocols(accepted) ==
    LET Ciphers(name) ==
            [i \in DOMAIN accepted[name] |-> OpensslName(accepted[name][i])]
        KeyExchange(name) ==
            LET with_dh == SelectSeq(accepted[name], HasDhInfo)
            IN  [i \in DOMAIN with_dh |-> KeyExchangeOf(with_dh[i])]
        supported_ciphers ==
            Concat([k \in DOMAIN SCAN_COMMANDS |-> Ciphers(SCAN_COMMANDS[k])])
        supported_protocols ==
            SelectSeq(SCAN_COMMANDS, LAMBDA name : Len(Ciphers(name)) # 0)
    IN  [supported_ciphers |-> Range(supported_ciphers),
         supported_protocols |-> Range(supported_protocols),
         supported_key_exchange |->
             Concat([k \in DOMAIN SCAN_COMMANDS |-> KeyExchange(SCAN_COMMANDS[k])])]

\* ------------------------------------------------------ check_server_matches_profile

MustNotSupport(x) == "must not support \"" \o x \o "\""

\* One error per item, in the order a for loop visits them.
ErrorsFor(items) == [i \in DOMAIN items |-> MustNotSupport(items[i])]

check_server_matches_profile_SuitesOnly(supported_protocols, supported_ciphers, target_profile) ==
    LET allowed_protocols == Range(target_profile.tls_versions)
        illegal_protocols == supported_protocols \ allowed_protocols
        allowed_ciphers == Range(target_profile.ciphersuites)
        illegal_ciphers == supported_ciphers \ allowed_ciphers
    IN  {ErrorsFor(protocols) \o ErrorsFor(ciphers) :
            protocols \in IterationOrders(illegal_protocols),
            ciphers \in IterationOrders(illegal_ciphers)}

\* The lists the method may return: the two for loops run over Python sets.
check_server_matches_profile(supported_protocols, supported_ciphers, target_profile) ==
    LET allowed_protocols == Range(target_profile.tls_versions)
        illegal_protocols == supported_protocols \ allowed_protocols
        allowed_ciphers ==
            Range(target_profile.ciphersuites \o target_profile.ciphers.openssl)
        illegal_ciphers == supported_ciphers \ allowed_ciphers
    IN  {ErrorsFor(protocols) \o ErrorsFor(ciphers) :
            protocols \in IterationOrders(illegal_protocols),
            ciphers \in IterationOrders(illegal_ciphers)}

\* ------------------------------------------------------ TLSProfiler.run

CertificateCommand == "CertificateInfoScanCommand"

\* The cipher-suite scan command of each key of SCAN_COMMANDS.
CipherSuiteCommand(name) ==
    CASE name = "SSLv2" -> "Sslv20ScanCommand"
      [] name = "SSLv3" -> "Sslv30ScanCommand"
      [] name = "TLSv1" -> "Tlsv10ScanCommand"
      [] name = "TLSv1.1" -> "Tlsv11ScanCommand"
      [] name = "TLSv1.2" -> "Tlsv12ScanCommand"
      [] name = "TLSv1.3" -> "Tlsv13ScanCommand"

VulnerabilityCommands ==
    {"HeartbleedScanCommand", "OpenSslCcsInjectionScanCommand", "RobotScanCommand"}

\* The fields scan_supported_ciphers_and_protocols has not set yet.
Unset == [type |-> "unset"]

\* Lines 75-84: run() past the test of server_info.
run_scans(self, scanned) ==
    LET certificate == check_certificate(scanned.certificate_info, self.target_profile)
        surveyed == scan_supported_ciphers_and_protocols(scanned.accepted)
        vulnerability_errors == check_vulnerabilities(scanned.vulnerabilities)
    IN  IF certificate.kind = "raised"
        THEN {[returns |-> certificate,
               scans |-> {CertificateCommand},
               supported |-> self.supported,
               frame |-> None]}
        ELSE {[returns |-> TLSProfilerResult(certificate.validation_errors,
                                             profile_errors \o certificate.profile_errors,
                                             vulnerability_errors),
               scans |-> {CertificateCommand}
                           \cup {CipherSuiteCommand(n) : n \in Range(SCAN_COMMANDS)}
                           \cup VulnerabilityCommands,
               supported |-> surveyed,
               frame |-> [validation_error |-> certificate.validation_errors,
                          cert_profile_error |-> certificate.profile_errors,
                          pub_key_type |-> certificate.pub_key_type,
                          profile_errors |-> profile_errors,
                          vulnerability_errors |-> vulnerability_errors]] :
                profile_errors \in
                    check_server_matches_profile(surveyed.supported_protocols,
                                                 surveyed.supported_ciphers,
                                                 self.target_profile)}

run_NoConnectivityGuard(self, scanned) == run_scans(self, scanned)

\* self is the profiler, scanned what the scans of this call return.  Yields
\* the ways the call may end: what it returns or raises, the scan commands
\* it issued, the fields it leaves on the profiler and, when it returns a
\* result, its local variables.
run(self, scanned) ==
    IF self.server_info = None
    THEN {[returns |-> None, scans |-> {}, supported |-> self.supported,
           frame |-> None]}
    ELSE run_scans(self, scanned)

\* ------------------------------------------------------ what the scans may return

PublicKeys ==
    {[class |-> "RSAPublicKey", key_size |-> 2048, curve |-> ""],
     [class |-> "RSAPublicKey", key_size |-> 4096, curve |-> ""],
     [class |-> "EllipticCurvePublicKey", key_size |-> 256, curve |-> "prime256v1"],
     [class |-> "EllipticCurvePublicKey", key_size |-> 521, curve |-> "secp521r1"],
     [class |-> "Ed25519PublicKey", key_size |-> 0, curve |-> ""],
     [class |-> "DSAPublicKey", key_size |-> 2048, curve |-> ""],
     [class |-> "X25519PublicKey", key_size |-> 0, curve |-> ""]}

SignatureAlgorithms ==
    {"ecdsa-with-SHA256", "sha256WithRSAEncryption", "sha1WithRSAEncryption"}

Certificates(dates, keys, signatures) ==
    [not_valid_before : dates, not_valid_after : dates,
     public_key : keys, signature_algorithm : signatures]

TrustStores == <<"Mozilla", "Apple">>

\* One path validation result per trust store.
PathValidationResultLists ==
    {[i \in DOMAIN TrustStores |->
         [was_validation_successful |-> ok[i],
          verify_string |->
              IF ok[i] THEN "ok" ELSE "unable to get local issuer certificate",
          trust_store |-> TrustStores[i]]] :
       ok \in [DOMAIN TrustStores -> BOOLEAN]}

AllSuccessful == CHOOSE l \in PathValidationResultLists :
                    \A i \in DOMAIN l : l[i].was_validation_successful

PathValidationErrorLists ==
    {<<>>,
     <<[error_message |-> "certificate has expired", trust_store |-> "Mozilla"]>>,
     <<[error_message |-> "certificate has expired", trust_store |-> "Mozilla"],
       [error_message |-> "unsupported certificate", trust_store |-> "Apple"]>>}

CertificateInfos(certificates, ocsp, results, failures, flags, counts) ==
    [received_certificate_chain : {<<c>> : c \in certificates},
     ocsp_response_is_trusted : ocsp,
     path_validation_result_list : results,
     path_validation_error_list : failures,
     leaf_certificate_subject_matches_hostname : flags,
     received_chain_has_valid_order : flags,
     verified_chain_has_sha1_signature : flags,
     verified_chain_has_legacy_symantec_anchor : flags,
     leaf_certificate_signed_certificate_timestamps_count : counts]

\* A certificate scan with nothing to report under the "modern" profile.
GoodCertificate ==
    [not_valid_before |-> 0, not_valid_after |-> 1,
     public_key |-> [class |-> "EllipticCurvePublicKey", key_size |-> 256,
                     curve |-> "prime256v1"],
     signature_algorithm |-> "ecdsa-with-SHA256"]

GoodCertificateInfo ==
    [received_certificate_chain |-> <<GoodCertificate>>,
     ocsp_response_is_trusted |-> TRUE,
     path_validation_result_list |-> AllSuccessful,
     path_validation_error_list |-> <<>>,
     leaf_certificate_subject_matches_hostname |-> TRUE,
     received_chain_has_valid_order |-> TRUE,
     verified_chain_has_sha1_signature |-> FALSE,
     verified_chain_has_legacy_symantec_anchor |-> FALSE,
     leaf_certificate_signed_certificate_timestamps_count |-> 2]

EcdhInfo == [type |-> "ECDH", size |-> 253]

\* The cipher suites a server may accept, as the scans report them.
AcceptedCiphers ==
    {[openssl_name |-> "TLS_AES_128_GCM_SHA256", dh_info |-> EcdhInfo],
     [openssl_name |-> "ECDHE-RSA-AES128-GCM-SHA256", dh_info |-> EcdhInfo],
     [openssl_name |-> "AES128-SHA", dh_info |-> None],
     [openssl_name |-> "DES-CBC3-SHA", dh_info |-> None],
     [openssl_name |-> "RC4-MD5", dh_info |-> None]}

Cipher(name) == CHOOSE c \in AcceptedCiphers : c.openssl_name = name

\* The accepted_cipher_list of one protocol version.
AcceptedCipherLists ==
    {<<>>,
     <<Cipher("TLS_AES_128_GCM_SHA256")>>,
     <<Cipher("ECDHE-RSA-AES128-GCM-SHA256"), Cipher("DES-CBC3-SHA")>>,
     <<Cipher("RC4-MD5"), Cipher("DES-CBC3-SHA"), Cipher("AES128-SHA")>>}

\* What the six cipher-suite scans may return, with at most `active`
\* protocol versions accepting anything.
Surveys(active) ==
    {accepted \in [Range(SCAN_COMMANDS) -> AcceptedCipherLists] :
        Cardinality({n \in Range(SCAN_COMMANDS) : accepted[n] # <<>>}) <= active}

GoodSurvey ==
    [n \in Range(SCAN_COMMANDS) |->
        IF n = "TLSv1.3" THEN <<Cipher("TLS_AES_128_GCM_SHA256")>> ELSE <<>>]

VulnerabilityVerdicts ==
    [is_vulnerable_to_heartbleed : BOOLEAN,
     is_vulnerable_to_ccs_injection : BOOLEAN,
     robot_result_enum : RobotScanResultEnum]

NotVulnerable ==
    [is_vulnerable_to_heartbleed |-> FALSE,
     is_vulnerable_to_ccs_injection |-> FALSE,
     robot_result_enum |-> "NOT_VULNERABLE_NO_ORACLE"]

ScanResults(infos, surveys, verdicts) ==
    [certificate_info : infos, accepted : surveys, vulnerabilities : verdicts]

\* ------------------------------------------------------ state

VARIABLES
    PROFILES,        \* TLSProfiler.PROFILES, the class attribute
    loads,           \* how many times PROFILES has been assigned
    pc,              \* where each thread is in TLSProfiler(domain, name)
    name,            \* the target_profile_name each thread passes
    target_profile,  \* self.target_profile
    server_info,     \* self.server_info
    server_error,    \* self.server_error
    probe,           \* what the connectivity tester did: returned or raised
    supported,       \* self.supported_ciphers, _protocols, _key_exchange
    scans,           \* the scan commands the profiler has issued
    calls,           \* how many times run() has been called on the profiler
    scanned,         \* what the scans of the last run() returned
    frame,           \* the local variables of the last run() that returned a result
    result           \* what the last run() returned or raised

vars == <<PROFILES, loads, pc, name, target_profile, server_info, server_error,
          probe, supported, scans, calls, scanned, frame, result>>

\* A profiler object as run() reads it.
Self(t) ==
    [target_profile |-> target_profile[t],
     server_info |-> server_info[t],
     supported |-> supported[t]]

ServerInfo == [hostname |-> "localhost", port |-> 443]

\* The error_message of a ServerConnectivityError.
ConnectivityErrors ==
    {[error_message |-> "Connection to localhost:443 timed out"],
     [error_message |-> "Could not complete a TLS handshake"]}

\* The catalog with the two maximum lifespans set.
CatalogWith(modern, old) ==
    [Catalog EXCEPT !.configurations["modern"].maximum_certificate_lifespan = modern,
                    !.configurations["old"].maximum_certificate_lifespan = old]

\* ------------------------------------------------------ TLSProfiler.__init__

\* Nothing constructed yet.
Init ==
    /\ PROFILES = None
    /\ loads = 0
    /\ pc = [t \in Threads |-> "start"]
    /\ name \in [Threads -> ProfileNames]
    /\ target_profile = [t \in Threads |-> None]
    /\ server_info = [t \in Threads |-> None]
    /\ server_error = [t \in Threads |-> None]
    /\ probe = [t \in Threads |-> None]
    /\ supported = [t \in Threads |-> Unset]
    /\ scans = [t \in Threads |-> {}]
    /\ calls = [t \in Threads |-> 0]
    /\ scanned = [t \in Threads |-> None]
    /\ frame = [t \in Threads |-> None]
    /\ result = [t \in Threads |-> None]

\* Line 50: the test of TLSProfiler.PROFILES.
CheckProfiles(t) ==
    /\ pc[t] = "start"
    /\ pc' = [pc EXCEPT ![t] = IF PROFILES = None THEN "fetch" ELSE "lookup"]
    /\ UNCHANGED <<PROFILES, loads, name, target_profile, server_info, server_error,
                   probe, supported, scans, calls, scanned, frame, result>>

\* Line 51: requests.get(...).json() returns and PROFILES is assigned.
FetchProfiles(t) ==
    /\ pc[t] = "fetch"
    /\ PROFILES' = Catalog
    /\ loads' = loads + 1
    /\ pc' = [pc EXCEPT ![t] = "lookup"]
    /\ UNCHANGED <<name, target_profile, server_info, server_error, probe,
                   supported, scans, calls, scanned, frame, result>>

\* Line 51: requests.get raises; the constructor ends with that exception.
FetchFails(t) ==
    /\ pc[t] = "fetch"
    /\ pc' = [pc EXCEPT ![t] = "ConnectionError"]
    /\ UNCHANGED <<PROFILES, loads, name, target_profile, server_info, server_error,
                   probe, supported, scans, calls, scanned, frame, result>>

LookupProfile_Fallback(t) ==
    /\ pc[t] = "lookup"
    /\ target_profile' =
          [target_profile EXCEPT ![t] =
              IF name[t] \in DOMAIN PROFILES.configurations
              THEN PROFILES.configurations[name[t]]
              ELSE PROFILES.configurations["old"]]
    /\ pc' = [pc EXCEPT ![t] = "probe"]
    /\ UNCHANGED <<PROFILES, loads, name, server_info, server_error, probe,
                   supported, scans, calls, scanned, frame, result>>

\* Line 55: the lookup of the profile name; an unknown name is a KeyError.
LookupProfile(t) ==
    /\ pc[t] = "lookup"
    /\ IF name[t] \in DOMAIN PROFILES.configurations
       THEN /\ target_profile' =
                  [target_profile EXCEPT ![t] = PROFILES.configurations[name[t]]]
            /\ pc' = [pc EXCEPT ![t] = "probe"]
       ELSE /\ pc' = [pc EXCEPT ![t] = "KeyError"]
            /\ UNCHANGED target_profile
    /\ UNCHANGED <<PROFILES, loads, name, server_info, server_error, probe,
                   supported, scans, calls, scanned, frame, result>>

\* Lines 58-64: the connectivity tester returns a server_info.
ProbeSucceeds(t) ==
    /\ pc[t] = "probe"
    /\ probe' = [probe EXCEPT ![t] = [returned |-> ServerInfo]]
    /\ server_info' = [server_info EXCEPT ![t] = ServerInfo]
    /\ server_error' = [server_error EXCEPT ![t] = None]
    /\ pc' = [pc EXCEPT ![t] = "constructed"]
    /\ UNCHANGED <<PROFILES, loads, name, target_profile, supported, scans, calls,
                   scanned, frame, result>>

\* Lines 65-69: the connectivity tester raises ServerConnectivityError e.
ProbeFails(t, e) ==
    /\ pc[t] = "probe"
    /\ probe' = [probe EXCEPT ![t] = [raised |-> e]]
    /\ server_error' = [server_error EXCEPT ![t] = e]
    /\ server_info' = [server_info EXCEPT ![t] = None]
    /\ pc' = [pc EXCEPT ![t] = "constructed"]
    /\ UNCHANGED <<PROFILES, loads, name, target_profile, supported, scans, calls,
                   scanned, frame, result>>

\* ------------------------------------------------------ calls of run()

\* Thread t calls run() on its profiler and the scans return s.
Run(t, s) ==
    /\ pc[t] = "constructed"
    /\ \E outcome \in run(Self(t), s) :
          /\ result' = [result EXCEPT ![t] = outcome.returns]
          /\ scans' = [scans EXCEPT ![t] = @ \cup outcome.scans]
          /\ supported' = [supported EXCEPT ![t] = outcome.supported]
          /\ frame' = [frame EXCEPT ![t] = outcome.frame]
    /\ calls' = [calls EXCEPT ![t] = @ + 1]
    /\ scanned' = [scanned EXCEPT ![t] = s]
    /\ UNCHANGED <<PROFILES, loads, pc, name, target_profile, server_info,
                   server_error, probe>>

\* ------------------------------------------------------ the life of two profilers

\* A few scan results: a clean server; one whose certificate scan carries a
\* path validation error; one that accepts protocols and ciphers outside
\* every profile and is open to ROBOT.
SampleScanResults ==
    {[certificate_info |-> GoodCertificateInfo,
      accepted |-> GoodSurvey,
      vulnerabilities |-> NotVulnerable],
     [certificate_info |->
          [GoodCertificateInfo EXCEPT
              !.path_validation_error_list =
                  <<[error_message |-> "certificate has expired",
                     trust_store |-> "Mozilla"]>>],
      accepted |-> GoodSurvey,
      vulnerabilities |-> NotVulnerable],
     [certificate_info |-> GoodCertificateInfo,
      accepted |->
          [n \in Range(SCAN_COMMANDS) |->
              IF n = "SSLv3"
              THEN <<Cipher("RC4-MD5"), Cipher("DES-CBC3-SHA"), Cipher("AES128-SHA")>>
              ELSE IF n = "TLSv1.3" THEN <<Cipher("TLS_AES_128_GCM_SHA256")>>
              ELSE <<>>],
      vulnerabilities |->
          [NotVulnerable EXCEPT !.robot_result_enum = "VULNERABLE_WEAK_ORACLE"]]}

Next ==
    \E t \in Threads :
        \/ CheckProfiles(t)
        \/ FetchProfiles(t)
        \/ FetchFails(t)
        \/ LookupProfile(t)
        \/ ProbeSucceeds(t)
        \/ \E e \in ConnectivityErrors : ProbeFails(t, e)
        \/ \E s \in SampleScanResults : calls[t] < MaxRuns /\ Run(t, s)

\* Two threads, each constructing a profiler and calling run() on it.
Spec == Init /\ [][Next]_vars

\* ------------------------------------------------------ one connected profiler

First == CHOOSE t \in Threads : TRUE

\* The state after the first thread has constructed a profiler for a
\* profile of one of `catalogs` and the probe has succeeded; the other
\* thread has not started.
Connected(catalogs) ==
    /\ PROFILES \in catalogs
    /\ loads = 1
    /\ pc = [t \in Threads |-> IF t = First THEN "constructed" ELSE "start"]
    /\ \E n \in DOMAIN Catalog.configurations :
          /\ name = [t \in Threads |-> n]
          /\ target_profile =
                [t \in Threads |-> IF t = First THEN PROFILES.configurations[n]
                                   ELSE None]
    /\ server_info = [t \in Threads |-> IF t = First THEN ServerInfo ELSE None]
    /\ server_error = [t \in Threads |-> None]
    /\ probe = [t \in Threads |-> IF t = First THEN [returned |-> ServerInfo]
                                ELSE None]
    /\ supported = [t \in Threads |-> Unset]
    /\ scans = [t \in Threads |-> {}]
    /\ calls = [t \in Threads |-> 0]
    /\ scanned = [t \in Threads |-> None]
    /\ frame = [t \in Threads |-> None]
    /\ result = [t \in Threads |-> None]

\* run() against every protocol and cipher survey.
InitMatcher == Connected({Catalog})

NextMatcher ==
    \E s \in ScanResults({GoodCertificateInfo}, Surveys(MaxActiveProtocols),
                         {NotVulnerable}) :
        calls[First] = 0 /\ Run(First, s)

SpecMatcher == InitMatcher /\ [][NextMatcher]_vars

\* run() against every vulnerability verdict, with and without other
\* findings in the certificate scan and the survey.
InitVulnerabilities == Connected({Catalog})

NextVulnerabilities ==
    \E s \in ScanResults(
                CertificateInfos({GoodCertificate}, BOOLEAN,
                                 PathValidationResultLists, {<<>>}, {TRUE}, {2}),
                Surveys(1), VulnerabilityVerdicts) :
        calls[First] = 0 /\ Run(First, s)

SpecVulnerabilities == InitVulnerabilities /\ [][NextVulnerabilities]_vars

\* run() against every leaf certificate, under every maximum lifespan.
InitCertificateProperties ==
    Connected({CatalogWith(d, d) : d \in 0..MaxLifespanDays})

NextCertificateProperties ==
    \E s \in ScanResults(
                CertificateInfos(Certificates(0..MaxTick, PublicKeys,
                                              SignatureAlgorithms),
                                 BOOLEAN, {AllSuccessful}, {<<>>}, {TRUE}, {2}),
                {GoodSurvey}, {NotVulnerable}) :
        calls[First] = 0 /\ Run(First, s)

SpecCertificateProperties ==
    InitCertificateProperties /\ [][NextCertificateProperties]_vars

\* run() against every outcome of the path validation and every chain flag.
InitCertificateValidation == Connected({Catalog})

NextCertificateValidation ==
    \E s \in ScanResults(
                CertificateInfos({GoodCertificate}, {TRUE},
                                 PathValidationResultLists, PathValidationErrorLists,
                                 BOOLEAN, 0..MaxSCT),
                {GoodSurvey}, {NotVulnerable}) :
        calls[First] = 0 /\ Run(First, s)

SpecCertificateValidation ==
    InitCertificateValidation /\ [][NextCertificateValidation]_vars

\* ------------------------------------------------------ TLSProfilerResult, built directly

ErrorMessages == {HeartbleedMessage, HostnameMessage}

ErrorLists ==
    UNION {[1..n -> ErrorMessages] : n \in 0..MaxErrors}

\* Thread t builds a TLSProfilerResult from three error lists.
BuildResult(t, validation_errors, profile_errors, vulnerability_errors) ==
    /\ result' = [result EXCEPT ![t] =
                     TLSProfilerResult(validation_errors, profile_errors,
                                       vulnerability_errors)]
    /\ UNCHANGED <<PROFILES, loads, pc, name, target_profile, server_info,
                   server_error, probe, supported, scans, calls, scanned, frame>>

NextResult ==
    \E v \in ErrorLists, p \in ErrorLists, u \in ErrorLists :
        result[First] = None /\ BuildResult(First, v, p, u)

SpecResult == Init /\ [][NextResult]_vars

\* ------------------------------------------------------ the claims

IsResult(r) == r # None /\ r.kind = "TLSProfilerResult"

ProbeRaised(t) == probe[t] # None /\ "raised" \in DOMAIN probe[t]

\* How many times message m occurs in the list errors.
Count(errors, m) == Cardinality({i \in DOMAIN errors : errors[i] = m})

\* C1: in every TLSProfilerResult, validated is true exactly when
\* validation_errors is empty, profile_matched exactly when profile_errors
\* is empty, vulnerable exactly when vulnerability_errors is not empty, and
\* all_ok exactly when the three lists are all empty.
C1_FlagsFollowLists ==
    \A t \in Threads :
        IsResult(result[t]) =>
            LET r == result[t] IN
            /\ r.validated <=> r.validation_errors = <<>>
            /\ r.profile_matched <=> r.profile_errors = <<>>
            /\ r.vulnerable <=> r.vulnerability_errors # <<>>
            /\ r.all_ok <=> /\ r.validation_errors = <<>>
                            /\ r.profile_errors = <<>>
                            /\ r.vulnerability_errors = <<>>

\* A result built from a vulnerability error alone: validated and matched,
\* vulnerable, not all_ok.
C1_Witness ==
    \E t \in Threads :
        /\ IsResult(result[t])
        /\ result[t].validation_errors = <<>>
        /\ result[t].profile_errors = <<>>
        /\ Len(result[t].vulnerability_errors) = MaxErrors
        /\ ~result[t].all_ok

\* The protocols and ciphers of a profiler's survey that its profile does
\* not allow.
Illegal(t) ==
    {x \in supported[t].supported_protocols :
        x \notin Range(target_profile[t].tls_versions)}
    \cup
    {x \in supported[t].supported_ciphers :
        /\ x \notin Range(target_profile[t].ciphersuites)
        /\ x \notin Range(target_profile[t].ciphers.openssl)}

\* C2: the list check_server_matches_profile returns holds the message
\* 'must not support "x"' exactly once for every supported protocol x
\* outside the profile's tls_versions and every supported cipher x outside
\* both of its cipher lists, and holds nothing else.
C2_ExactlyTheIllegal ==
    \A t \in Threads :
        frame[t] # None =>
            LET errors == frame[t].profile_errors IN
            /\ \A x \in Illegal(t) : Count(errors, MustNotSupport(x)) = 1
            /\ \A i \in DOMAIN errors :
                  \E x \in Illegal(t) : errors[i] = MustNotSupport(x)
            /\ \A x \in (supported[t].supported_protocols
                            \cup supported[t].supported_ciphers) \ Illegal(t) :
                  Count(errors, MustNotSupport(x)) = 0

\* A survey with an illegal protocol, an illegal cipher, and a cipher that
\* only the profile's OpenSSL list allows.
C2_Witness ==
    \E t \in Threads :
        /\ frame[t] # None
        /\ \E x \in Illegal(t) : x \in supported[t].supported_protocols
        /\ \E x \in Illegal(t) : x \in supported[t].supported_ciphers
        /\ \E x \in supported[t].supported_ciphers :
              /\ x \in Range(target_profile[t].ciphers.openssl)
              /\ x \notin Range(target_profile[t].ciphersuites)
        /\ Len(frame[t].profile_errors) = Cardinality(Illegal(t))

\* C3: once the connectivity tester has raised in the constructor,
\* server_error holds its message and server_info is None, and every call
\* of run() returns None and issues no scan.
C3_ConnectivityFailed ==
    \A t \in Threads :
        ProbeRaised(t) =>
            /\ pc[t] = "constructed"
            /\ server_error[t] = probe[t].raised
            /\ server_info[t] = None
            /\ scans[t] = {}
            /\ supported[t] = Unset
            /\ result[t] = None

\* A profiler whose probe failed and on which run() has been called.
C3_Witness ==
    \E t \in Threads : ProbeRaised(t) /\ calls[t] > 0

\* C4: a call of run() on a connected profiler returns a TLSProfilerResult,
\* whatever the scans returned.
C4_RunReturnsResult ==
    \A t \in Threads :
        (server_info[t] # None /\ calls[t] > 0) => IsResult(result[t])

\* C5: a thread that asks for a profile name the catalog does not hold
\* never runs the connectivity tester, never gets a profiler, and no scan
\* and no call of run() happens for it.
C5_UnknownProfileStopsConstruction ==
    \A t \in Threads :
        name[t] \notin DOMAIN Catalog.configurations =>
            /\ pc[t] \in {"start", "fetch", "lookup", "ConnectionError", "KeyError"}
            /\ probe[t] = None
            /\ target_profile[t] = None
            /\ scans[t] = {}
            /\ calls[t] = 0

\* The constructor has ended with the KeyError of an unknown name.
C5_Witness ==
    \E t \in Threads :
        name[t] \notin DOMAIN Catalog.configurations /\ pc[t] = "KeyError"

\* C6: two calls of run() with the same profile and the same supported
\* protocols and ciphers return the 'must not support' errors in the same
\* order.
C6_SameInputsSameOrder ==
    \A t, u \in Threads :
        (/\ frame[t] # None
         /\ frame[u] # None
         /\ target_profile[t] = target_profile[u]
         /\ supported[t].supported_protocols = supported[u].supported_protocols
         /\ supported[t].supported_ciphers = supported[u].supported_ciphers)
        => frame[t].profile_errors = frame[u].profile_errors

\* C7: TLSProfiler.PROFILES is assigned at most once.
C7_CatalogLoadedAtMostOnce == loads <= 1

\* The verdicts of the last run()'s vulnerability scans.
Verdicts(t) == scanned[t].vulnerabilities

RobotVulnerable(t) ==
    Verdicts(t).robot_result_enum
        \in {"VULNERABLE_WEAK_ORACLE", "VULNERABLE_STRONG_ORACLE"}

\* C8: the list check_vulnerabilities returns holds the ROBOT message once
\* when the ROBOT verdict is one of the two vulnerable ones and not at all
\* otherwise, the Heartbleed and CCS messages once each when their verdict
\* is true, and nothing else; the result's vulnerable flag is set whenever
\* the list is not empty.
C8_VulnerabilityMessages ==
    \A t \in Threads :
        frame[t] # None =>
            LET errors == frame[t].vulnerability_errors
                robot == IF RobotVulnerable(t) THEN 1 ELSE 0
                heartbleed == IF Verdicts(t).is_vulnerable_to_heartbleed THEN 1 ELSE 0
                ccs == IF Verdicts(t).is_vulnerable_to_ccs_injection THEN 1 ELSE 0
            IN  /\ Count(errors, RobotMessage) = robot
                /\ Count(errors, HeartbleedMessage) = heartbleed
                /\ Count(errors, CcsMessage) = ccs
                /\ Len(errors) = robot + heartbleed + ccs
                /\ IsResult(result[t])
                /\ result[t].vulnerability_errors = errors
                /\ result[t].vulnerable <=> (robot + heartbleed + ccs > 0)

\* ROBOT's weak oracle alone, next to a failed trust store validation.
C8_Witness ==
    \E t \in Threads :
        /\ frame[t] # None
        /\ Verdicts(t).robot_result_enum = "VULNERABLE_WEAK_ORACLE"
        /\ ~Verdicts(t).is_vulnerable_to_heartbleed
        /\ ~Verdicts(t).is_vulnerable_to_ccs_injection
        /\ frame[t].validation_error # <<>>
        /\ result[t].vulnerability_errors = <<RobotMessage>>
        /\ result[t].vulnerable

\* The leaf certificate of the last run()'s certificate scan.
Leaf(t) == scanned[t].certificate_info.received_certificate_chain[1]

\* not_valid_after - not_valid_before, in ticks.
LifespanTicks(t) == Leaf(t).not_valid_after - Leaf(t).not_valid_before

\* C9: a certificate that lasts less than one day more than the profile's
\* maximum_certificate_lifespan gets no lifespan error; one that lasts a
\* day more, or longer, gets exactly one.
C9_LifespanBoundary ==
    \A t \in Threads :
        frame[t] # None =>
            LET limit == target_profile[t].maximum_certificate_lifespan
                n == Count(frame[t].cert_profile_error, LifespanMessage)
            IN  IF LifespanTicks(t) < (limit + 1) * TicksPerDay
                THEN n = 0
                ELSE n = 1

\* A lifespan of exactly the maximum number of whole days, with no error.
C9_Witness ==
    \E t \in Threads :
        /\ frame[t] # None
        /\ target_profile[t].maximum_certificate_lifespan > 0
        /\ LifespanTicks(t)
             = target_profile[t].maximum_certificate_lifespan * TicksPerDay
        /\ Count(frame[t].cert_profile_error, LifespanMessage) = 0

RECURSIVE Join(_, _)
\* sep.join(s) for a list of strings s.
Join(sep, s) ==
    IF s = <<>> THEN ""
    ELSE IF Len(s) = 1 THEN s[1]
    ELSE s[1] \o sep \o Join(sep, Tail(s))

\* The message line 190 is written to build.
CombinedMessage(failures) ==
    "Validation failed: "
        \o Join(", ", [i \in DOMAIN failures |-> ErrorMessageOf(failures[i])])

\* C10: when the certificate scan carries path validation errors, run()
\* returns a result whose validation errors hold the one combined message
\* and the message of every other check that failed.
C10_CombinedMessage ==
    \A t \in Threads :
        (/\ calls[t] > 0
         /\ server_info[t] # None
         /\ scanned[t].certificate_info.path_validation_error_list # <<>>)
        => /\ IsResult(result[t])
           /\ LET info == scanned[t].certificate_info
                  errors == result[t].validation_errors
              IN  /\ Count(errors, CombinedMessage(info.path_validation_error_list)) = 1
                  /\ Range(ChainHygieneErrors(info)) \subseteq Range(errors)

====
